---- MODULE Spec2Model ----
(***************************************************************************)
(* A model of flight_project/flight_parser.py: the CSV validator           *)
(* (parse_csv_file) and the orchestration and query loop (main).           *)
(*                                                                         *)
(* Text is modelled at the character level: a Python str is a sequence of  *)
(* one-character strings, so that strip, startswith, split, isalnum,       *)
(* isupper, strptime and float are computed, not assumed.                  *)
(***************************************************************************)
EXTENDS Integers, Sequences, FiniteSets, TLC

(***************************************************************************)
(* Characters                                                              *)
(***************************************************************************)
UpperSeq == <<"A", "B", "C", "D", "E", "F", "G", "H", "I", "J", "K", "L", "M",
              "N", "O", "P", "Q", "R", "S", "T", "U", "V", "W", "X", "Y", "Z">>
LowerSeq == <<"a", "b", "c", "d", "e", "f", "g", "h", "i", "j", "k", "l", "m",
              "n", "o", "p", "q", "r", "s", "t", "u", "v", "w", "x", "y", "z">>
DigitSeq == <<"0", "1", "2", "3", "4", "5", "6", "7", "8", "9">>

Range(s) == {s[i] : i \in 1..Len(s)}

Upper == Range(UpperSeq)
Lower == Range(LowerSeq)
Digit == Range(DigitSeq)
Whitespace == {" ", "\t", "\n", "\r"}

(***************************************************************************)
(* Python str methods used by the parser                                   *)
(***************************************************************************)
RECURSIVE lstrip(_)
lstrip(s) ==
    IF s # <<>> /\ Head(s) \in Whitespace THEN lstrip(Tail(s)) ELSE s

RECURSIVE rstrip(_)
rstrip(s) ==
    IF s # <<>> /\ s[Len(s)] \in Whitespace
    THEN rstrip(SubSeq(s, 1, Len(s) - 1))
    ELSE s

\* str.strip(): surrounding whitespace removed
strip(s) == rstrip(lstrip(s))

\* str.startswith(prefix)
startswith(s, prefix) ==
    Len(s) >= Len(prefix) /\ SubSeq(s, 1, Len(prefix)) = prefix

\* str.endswith(suffix)
endswith(s, suffix) ==
    Len(s) >= Len(suffix) /\ SubSeq(s, Len(s) - Len(suffix) + 1, Len(s)) = suffix

\* str.split(sep) for a one-character separator: "a,,b" gives three fields,
\* the empty string gives one empty field
RECURSIVE split(_, _)
split(s, sep) ==
    IF \A i \in 1..Len(s) : s[i] # sep
    THEN <<s>>
    ELSE LET i == CHOOSE k \in 1..Len(s) :
                      s[k] = sep /\ \A m \in 1..(k - 1) : s[m] # sep
         IN  <<SubSeq(s, 1, i - 1)>> \o split(SubSeq(s, i + 1, Len(s)), sep)

\* str.isalnum(): at least one character, every character a letter or a digit
isalnum(s) ==
    Len(s) > 0 /\ \A i \in 1..Len(s) : s[i] \in Upper \cup Lower \cup Digit

\* str.isupper(): at least one cased character and no lowercase character;
\* characters without case (digits, punctuation, blanks) are not looked at
isupper(s) ==
    /\ \E i \in 1..Len(s) : s[i] \in Upper
    /\ \A i \in 1..Len(s) : s[i] \notin Lower

\* str.lower()
lower(s) ==
    [i \in 1..Len(s) |->
        IF s[i] \in Upper
        THEN LowerSeq[CHOOSE k \in 1..Len(UpperSeq) : UpperSeq[k] = s[i]]
        ELSE s[i]]

IsDigits(s) == Len(s) > 0 /\ \A i \in 1..Len(s) : s[i] \in Digit

DigitValue(c) == (CHOOSE k \in 1..Len(DigitSeq) : DigitSeq[k] = c) - 1

RECURSIVE ToInt(_)
ToInt(s) ==
    IF s = <<>> THEN 0
    ELSE 10 * ToInt(SubSeq(s, 1, Len(s) - 1)) + DigitValue(s[Len(s)])

RECURSIVE Pow10(_)
Pow10(n) == IF n = 0 THEN 1 ELSE 10 * Pow10(n - 1)

(***************************************************************************)
(* datetime.strptime(x, "%Y-%m-%d %H:%M")                                  *)
(*                                                                         *)
(* The result is the tuple <<year, month, day, hour, minute>>, compared    *)
(* lexicographically as datetime objects are; NoDatetime stands for the    *)
(* ValueError.  %Y is exactly four digits; %m, %d, %H and %M take one or   *)
(* two digits, so "2024-5-1 9:05" parses to the same instant as            *)
(* "2024-05-01 09:05"; the blank of the format matches a run of blanks;    *)
(* the day must exist in the month.  (strptime's space-padded day, " 1",   *)
(* is not among the inputs of this model.)                                 *)
(***************************************************************************)
NoDatetime == <<>>

IsLeap(y) == (y % 4 = 0 /\ y % 100 # 0) \/ y % 400 = 0

DaysInMonth(y, m) ==
    IF m = 2 THEN (IF IsLeap(y) THEN 29 ELSE 28)
    ELSE IF m \in {4, 6, 9, 11} THEN 30
    ELSE 31

\* one or two digits whose value lies in lo..hi
NumField(s, lo, hi) ==
    IsDigits(s) /\ Len(s) <= 2 /\ ToInt(s) >= lo /\ ToInt(s) <= hi

strptime(x) ==
    LET ws == split(x, " ")
        NonEmpty(w) == w # <<>>
        toks == SelectSeq(ws, NonEmpty)
    IN  IF Len(toks) # 2 \/ ws[1] = <<>> \/ ws[Len(ws)] = <<>>
        THEN NoDatetime
        ELSE LET d == split(toks[1], "-")
                 t == split(toks[2], ":")
             IN  IF /\ Len(d) = 3
                    /\ Len(t) = 2
                    /\ IsDigits(d[1]) /\ Len(d[1]) = 4 /\ ToInt(d[1]) >= 1
                    /\ NumField(d[2], 1, 12)
                    /\ NumField(d[3], 1, 31)
                    /\ ToInt(d[3]) <= DaysInMonth(ToInt(d[1]), ToInt(d[2]))
                    /\ NumField(t[1], 0, 23)
                    /\ NumField(t[2], 0, 59)
                 THEN <<ToInt(d[1]), ToInt(d[2]), ToInt(d[3]),
                        ToInt(t[1]), ToInt(t[2])>>
                 ELSE NoDatetime

\* datetime.__lt__ on two parsed datetimes
RECURSIVE LexLess(_, _)
LexLess(a, b) ==
    IF a = <<>> \/ b = <<>> THEN FALSE
    ELSE IF Head(a) # Head(b) THEN Head(a) < Head(b)
    ELSE LexLess(Tail(a), Tail(b))

dt_lt(a, b) == LexLess(a, b)
dt_le(a, b) == a = b \/ LexLess(a, b)
dt_gt(a, b) == LexLess(b, a)

(***************************************************************************)
(* float(x)                                                                *)
(*                                                                         *)
(* A float is [cls, num, den]: a finite value num/den with den a power of  *)
(* ten and no trailing zero in the fraction, an infinity (num = 1 or -1),  *)
(* a NaN, or NoFloat for the ValueError.  float() strips blanks, takes a   *)
(* sign, "inf", "infinity" and "nan" in any case, and decimal digits with  *)
(* an optional point.  (Exponents and digit-group underscores are not      *)
(* among the inputs of this model.)                                        *)
(***************************************************************************)
s_inf == <<"i", "n", "f">>
s_infinity == <<"i", "n", "f", "i", "n", "i", "t", "y">>
s_nan == <<"n", "a", "n">>

NoFloat == [cls |-> "err", num |-> 0, den |-> 0]
NaN == [cls |-> "nan", num |-> 0, den |-> 0]
Inf(sign) == [cls |-> "inf", num |-> sign, den |-> 0]

RECURSIVE Fin(_, _)
Fin(num, den) ==
    IF den > 1 /\ num % 10 = 0 THEN Fin(num \div 10, den \div 10)
    ELSE [cls |-> "fin", num |-> num, den |-> den]

float(x) ==
    LET t == strip(x)
        signed == t # <<>> /\ t[1] \in {"+", "-"}
        sign == IF signed /\ t[1] = "-" THEN -1 ELSE 1
        body == IF signed THEN Tail(t) ELSE t
        parts == split(body, ".")
        ip == parts[1]
        fp == IF Len(parts) = 2 THEN parts[2] ELSE <<>>
    IN  IF lower(body) \in {s_inf, s_infinity} THEN Inf(sign)
        ELSE IF lower(body) = s_nan THEN NaN
        ELSE IF /\ Len(parts) <= 2
                /\ Len(ip) + Len(fp) > 0
                /\ \A i \in 1..Len(ip) : ip[i] \in Digit
                /\ \A i \in 1..Len(fp) : fp[i] \in Digit
             THEN Fin(sign * ToInt(ip \o fp), Pow10(Len(fp)))
             ELSE NoFloat

\* a <= b on floats: every comparison with a NaN is False
float_le(a, b) ==
    IF a.cls = "nan" \/ b.cls = "nan" THEN FALSE
    ELSE IF a.cls = "inf" THEN a.num < 0 \/ b = a
    ELSE IF b.cls = "inf" THEN b.num > 0
    ELSE a.num * b.den <= b.num * a.den

\* a > b on floats
float_gt(a, b) ==
    IF a.cls = "nan" \/ b.cls = "nan" THEN FALSE
    ELSE ~float_le(a, b)

Zero == Fin(0, 1)

(***************************************************************************)
(* parse_csv_file: the body of the loop over the lines of one file         *)
(***************************************************************************)
s_flight_id == <<"f", "l", "i", "g", "h", "t", "_", "i", "d">>
s_XXX == <<"X", "X", "X">>

CommentNotice == "comment line, ignored for data parsing"
MissingFields == "missing required fields"

\* f"Line {line_number}: {line} -> {text}": the three parts of the entry;
\* reasons is the list that ", ".join turns into the entry's text
ErrorEntry(line_number, line, reasons) ==
    [line_number |-> line_number, line |-> line, reasons |-> reasons]

\* check_airport(code, field_name): the reason, or no reason (None)
check_airport(code, field_name) ==
    IF Len(code) # 3 \/ ~isupper(code)
    THEN <<"invalid " \o field_name \o " code">>
    ELSE IF code = s_XXX
         THEN <<"invalid " \o field_name \o " code">>
         ELSE <<>>

\* the reasons list built for a line of six fields, in the order of the checks
ValidationReasons(parts) ==
    LET flight_id == parts[1]
        origin == parts[2]
        destination == parts[3]
        dep_dt == strptime(parts[4])
        arr_dt == strptime(parts[5])
        price == float(parts[6])
    IN  (IF ~(2 <= Len(flight_id) /\ Len(flight_id) <= 8 /\ isalnum(flight_id))
         THEN <<"invalid flight_id">> ELSE <<>>)
        \o check_airport(origin, "origin")
        \o check_airport(destination, "destination")
        \o (IF dep_dt = NoDatetime THEN <<"invalid departure datetime">> ELSE <<>>)
        \o (IF arr_dt = NoDatetime THEN <<"invalid arrival datetime">> ELSE <<>>)
        \o (IF dep_dt # NoDatetime /\ arr_dt # NoDatetime /\ dt_le(arr_dt, dep_dt)
            THEN <<"arrival before departure">> ELSE <<>>)
        \o (IF price = NoFloat THEN <<"invalid price">>
            ELSE IF float_le(price, Zero) THEN <<"negative price value">>
            ELSE <<>>)

\* the dict appended to valid_flights
FlightDict(parts) ==
    [flight_id |-> parts[1],
     origin |-> parts[2],
     destination |-> parts[3],
     departure_datetime |-> parts[4],
     arrival_datetime |-> parts[5],
     price |-> float(parts[6])]

\* ProcessLine with the continue of the comment branch left out: the comment
\* is noted and then validated as data
ProcessLine_CommentFallsThrough(line_number, raw_line) ==
    LET line == strip(raw_line)
        parts == split(line, ",")
        reasons == ValidationReasons(parts)
        notice == IF startswith(line, <<"#">>)
                  THEN <<ErrorEntry(line_number, line, <<CommentNotice>>)>>
                  ELSE <<>>
    IN  IF line = <<>> \/ startswith(line, s_flight_id)
        THEN [valid |-> <<>>, errors |-> <<>>]
        ELSE IF Len(parts) # 6
        THEN [valid |-> <<>>,
              errors |-> notice
                           \o <<ErrorEntry(line_number, line, <<MissingFields>>)>>]
        ELSE IF Len(reasons) = 0
        THEN [valid |-> <<FlightDict(parts)>>, errors |-> notice]
        ELSE [valid |-> <<>>,
              errors |-> notice \o <<ErrorEntry(line_number, line, reasons)>>]

\* One iteration of the loop: what it appends to valid_flights and to
\* error_entries (each <<>> or one element).
ProcessLine(line_number, raw_line) ==
    LET line == strip(raw_line)
        parts == split(line, ",")
        reasons == ValidationReasons(parts)
        Nothing == [valid |-> <<>>, errors |-> <<>>]
    IN  IF line = <<>> THEN Nothing
        ELSE IF startswith(line, <<"#">>)
        THEN [valid |-> <<>>,
              errors |-> <<ErrorEntry(line_number, line, <<CommentNotice>>)>>]
        ELSE IF startswith(line, s_flight_id) THEN Nothing
        ELSE IF Len(parts) # 6
        THEN [valid |-> <<>>,
              errors |-> <<ErrorEntry(line_number, line, <<MissingFields>>)>>]
        ELSE IF Len(reasons) = 0
        THEN [valid |-> <<FlightDict(parts)>>, errors |-> <<>>]
        ELSE [valid |-> <<>>,
              errors |-> <<ErrorEntry(line_number, line, reasons)>>]

(***************************************************************************)
(* Input data: file names, fields and lines                                *)
(***************************************************************************)
\* arguments and file names
p_a == <<"a", ".", "c", "s", "v">>
p_data == <<"d", "a", "t", "a">>
p_db == <<"d", "b", ".", "j", "s", "o", "n">>
p_out == <<"o", "u", "t", ".", "j", "s", "o", "n">>
p_q == <<"q", ".", "j", "s", "o", "n">>
f_b == <<"b", ".", "c", "s", "v">>
f_c == <<"c", ".", "c", "s", "v">>
f_notes == <<"n", "o", "t", "e", "s", ".", "t", "x", "t">>
s_csv == <<".", "c", "s", "v">>
\* fields
AB12 == <<"A", "B", "1", "2">>
CD34 == <<"C", "D", "3", "4">>
A_short == <<"A">>
AB_dash == <<"A", "B", "-", "1">>
JFK == <<"J", "F", "K">>
LAX == <<"L", "A", "X">>
A1B == <<"A", "1", "B">>
jfk_lower == <<"j", "f", "k">>
JFK_blank == <<" ", "J", "F", "K">>
May1_1000 == <<"2", "0", "2", "4", "-", "0", "5", "-", "0", "1", " ", "1", "0", ":", "0", "0">>
May1_1400 == <<"2", "0", "2", "4", "-", "0", "5", "-", "0", "1", " ", "1", "4", ":", "0", "0">>
May2_0000 == <<"2", "0", "2", "4", "-", "0", "5", "-", "0", "2", " ", "0", "0", ":", "0", "0">>
May2_0930 == <<"2", "0", "2", "4", "-", "0", "5", "-", "0", "2", " ", "0", "9", ":", "3", "0">>
May1_1400_short == <<"2", "0", "2", "4", "-", "5", "-", "1", " ", "1", "4", ":", "0", "0">>
Month13 == <<"2", "0", "2", "4", "-", "1", "3", "-", "0", "1", " ", "1", "0", ":", "0", "0">>
Feb30 == <<"2", "0", "2", "4", "-", "0", "2", "-", "3", "0", " ", "1", "0", ":", "0", "0">>
tomorrow == <<"t", "o", "m", "o", "r", "r", "o", "w">>
p199_99 == <<"1", "9", "9", ".", "9", "9">>
p250 == <<"2", "5", "0">>
p0 == <<"0">>
p_minus5 == <<"-", "5">>
p_abc == <<"a", "b", "c">>
HeaderText == <<"f", "l", "i", "g", "h", "t", "_", "i", "d", ",", "o", "r", "i", "g", "i", "n", ",", "d", "e", "s", "t", "i", "n", "a", "t", "i", "o", "n", ",", "d", "e", "p", "a", "r", "t", "u", "r", "e", "_", "d", "a", "t", "e", "t", "i", "m", "e", ",", "a", "r", "r", "i", "v", "a", "l", "_", "d", "a", "t", "e", "t", "i", "m", "e", ",", "p", "r", "i", "c", "e">>
HeaderLike == <<"f", "l", "i", "g", "h", "t", "_", "i", "d", "_", "7", "7", ",", "J", "F", "K">>
CommentText == <<"#", " ", "t", "e", "s", "t", " ", "d", "a", "t", "a">>
CommentIndented == <<" ", " ", "#", " ", "i", "n", "d", "e", "n", "t", "e", "d">>

NoArg == <<>>
Given(a) == a # NoArg

\* os.path.join(args.d, filename)
join(dir, filename) == dir \o <<"/">> \o filename

\* a raw line of a file: six fields, commas, the line break
Csv(a, b, c, d, e, f) ==
    a \o <<",">> \o b \o <<",">> \o c \o <<",">> \o d \o <<",">> \o e
      \o <<",">> \o f \o <<"\n">>

L_ok == Csv(AB12, JFK, LAX, May1_1000, May1_1400, p199_99)
L_ok2 == Csv(CD34, LAX, JFK, May1_1400, May2_0930, p250)
L_dup == Csv(AB12, JFK, LAX, May2_0000, May2_0930, p250)
L_nan == Csv(CD34, JFK, LAX, May1_1000, May1_1400, s_nan)
L_inf == Csv(AB12, JFK, LAX, May1_1000, May1_1400, s_inf)
L_digit_airport == Csv(AB12, A1B, LAX, May1_1000, May1_1400, p199_99)
L_digit_and_xxx == Csv(AB12, A1B, s_XXX, May1_1000, May1_1400, p199_99)
L_short_date == Csv(AB12, JFK, LAX, May1_1000, May1_1400_short, p199_99)
L_padded == <<" ", " ">> \o L_ok
L_short_id == Csv(A_short, JFK, LAX, May1_1000, May1_1400, p199_99)
L_xxx == Csv(AB12, s_XXX, LAX, May1_1000, May1_1400, p199_99)
L_lower == Csv(AB12, JFK, jfk_lower, May1_1000, May1_1400, p199_99)
L_blank_field == Csv(AB12, JFK_blank, LAX, May1_1000, May1_1400, p199_99)
L_reversed == Csv(AB12, JFK, LAX, May1_1400, May1_1000, p199_99)
L_equal == Csv(AB12, JFK, LAX, May1_1000, May1_1000, p199_99)
L_bad_dep == Csv(AB12, JFK, LAX, Month13, May1_1400, p199_99)
L_bad_arr == Csv(AB12, JFK, LAX, May1_1000, tomorrow, p199_99)
L_feb30 == Csv(AB12, JFK, LAX, Feb30, May2_0930, p199_99)
L_zero == Csv(AB12, JFK, LAX, May1_1000, May1_1400, p0)
L_negative == Csv(AB12, JFK, LAX, May1_1000, May1_1400, p_minus5)
L_bad_price == Csv(AB12, JFK, LAX, May1_1000, May1_1400, p_abc)
L_two == Csv(AB_dash, JFK, LAX, May1_1000, May1_1400, p_minus5)
L_many == Csv(A_short, s_XXX, jfk_lower, tomorrow, Feb30, p_abc)
L_five == AB12 \o <<",">> \o JFK \o <<",">> \o LAX \o <<",">> \o May1_1000
            \o <<",">> \o p250 \o <<"\n">>
L_seven == AB12 \o <<",">> \o L_ok
L_empty == <<"\n">>
L_blanks == <<" ", " ", "\n">>
L_comment == CommentText \o <<"\n">>
L_comment2 == CommentIndented \o <<"\n">>
L_header == HeaderText \o <<"\n">>
L_header_like == HeaderLike \o <<"\n">>

\* the lines the validator is checked on
SampleLines ==
    {L_ok, L_ok2, L_nan, L_inf, L_digit_airport, L_digit_and_xxx, L_short_date,
     L_padded, L_short_id, L_xxx, L_lower, L_blank_field, L_reversed, L_equal,
     L_bad_dep, L_bad_arr, L_feb30, L_zero, L_negative, L_bad_price, L_two,
     L_many, L_five, L_seven, L_empty, L_blanks, L_comment, L_comment2,
     L_header, L_header_like}

\* the lines of the runs of main: accepted, rejected, a comment
MainLines == {L_ok, L_two, L_comment}

\* the lines the databases of the query runs are built from
QueryLines == {L_ok, L_ok2, L_dup, L_nan}

(***************************************************************************)
(* Query data.  A predicate set (a JSON object) is the sequence of its     *)
(* items, [key, value], in the order q.items() yields them.  The query     *)
(* file holds one predicate set or a list of them.                         *)
(***************************************************************************)
Item(key, value) == [key |-> key, value |-> value]

Q_all == <<>>
Q_flight == <<Item("flight_id", AB12)>>
Q_origin == <<Item("origin", JFK)>>
Q_price200 == <<Item("price", Fin(200, 1))>>
Q_price100 == <<Item("price", Fin(100, 1))>>
Q_origin_price == <<Item("origin", JFK), Item("price", Fin(200, 1))>>
Q_unknown == <<Item("airline", AB12)>>
Q_departure == <<Item("departure_datetime", May2_0000)>>
Q_arrival == <<Item("arrival_datetime", May1_1400)>>
Q_departure_time == <<Item("departure_time", May2_0000)>>
Q_arrival_time == <<Item("arrival_time", May1_1000)>>
Q_bad_dt == <<Item("departure_datetime", tomorrow)>>

\* every list of at most n predicate sets of S
Batches(S, n) == UNION {[1..k -> S] : k \in 0..n}

\* what json.load gives for the query file: an object or a list
JsonDict(q) == [type |-> "dict", object |-> q, list |-> <<>>]
JsonList(qs) == [type |-> "list", object |-> <<>>, list |-> qs]

(***************************************************************************)
(* The state of a run of main()                                            *)
(***************************************************************************)
VARIABLES
    args,           \* the parsed command line: i, d, o, j, q
    unreadable,     \* the CSV paths that open() fails on
    pc,             \* where main is
    exc,            \* the exception that ended the run, "" if none
    all_valid,      \* main's all_valid
    all_errors,     \* main's all_errors
    path,           \* parse_csv_file's path
    ret,            \* which call of parse_csv_file is running: "i" or "d"
    read,           \* the raw lines the running (or last) call has read
    valid_flights,  \* parse_csv_file's valid_flights
    error_entries,  \* parse_csv_file's error_entries
    listing,        \* os.listdir(args.d)
    idx,            \* position of the loop over the listing
    parsed,         \* the paths parse_csv_file has returned for
    queries,        \* main's queries
    responses,      \* main's responses
    errors_txt,     \* the file errors.txt
    db_json,        \* the file at output_path
    response_json,  \* the response file
    stdout          \* what was printed

vars == <<args, unreadable, pc, exc, all_valid, all_errors, path, ret, read,
          valid_flights, error_entries, listing, idx, parsed, queries,
          responses, errors_txt, db_json, response_json, stdout>>

parse_vars == <<path, ret, read, valid_flights, error_entries>>
file_vars == <<errors_txt, db_json, response_json>>

NotWritten == [written |-> FALSE, path |-> <<>>, content |-> <<>>]
File(p, content) == [written |-> TRUE, path |-> p, content |-> content]

s_errors_txt == <<"e", "r", "r", "o", "r", "s", ".", "t", "x", "t">>
s_db_json == <<"d", "b", ".", "j", "s", "o", "n">>
s_response == <<"r", "e", "s", "p", "o", "n", "s", "e">>

AllArgs ==
    [i : {NoArg, p_a}, d : {NoArg, p_data}, o : {NoArg, p_out},
     j : {NoArg, p_db}, q : {NoArg, p_q}]

CsvPaths == {p_a, join(p_data, f_b), join(p_data, f_c)}

\* main before its first statement, all_valid = [] and all_errors = []
Start(a, u) ==
    /\ args = a
    /\ unreadable = u
    /\ pc = "load"
    /\ exc = ""
    /\ all_valid = <<>>
    /\ all_errors = <<>>
    /\ path = <<>>
    /\ ret = ""
    /\ read = <<>>
    /\ valid_flights = <<>>
    /\ error_entries = <<>>
    /\ listing = <<>>
    /\ idx = 0
    /\ parsed = <<>>
    /\ queries = <<>>
    /\ responses = <<>>
    /\ errors_txt = NotWritten
    /\ db_json = NotWritten
    /\ response_json = NotWritten
    /\ stdout = <<>>

\* an uncaught exception ends the run
Raise(e) ==
    /\ pc' = "crashed"
    /\ exc' = e

(***************************************************************************)
(* main: load an existing database (-j)                                    *)
(***************************************************************************)
NoLoad ==
    /\ pc = "load"
    /\ ~Given(args.j)
    /\ pc' = "parse_i"
    /\ UNCHANGED <<args, unreadable, exc, all_valid, all_errors, parse_vars,
                   listing, idx, parsed, queries, responses, file_vars, stdout>>

LoadDatabase(Databases) ==
    /\ pc = "load"
    /\ Given(args.j)
    /\ \E db \in Databases : all_valid' = db
    /\ stdout' = Append(stdout, "Loaded existing database from")
    /\ pc' = "parse_i"
    /\ UNCHANGED <<args, unreadable, exc, all_errors, parse_vars,
                   listing, idx, parsed, queries, responses, file_vars>>

\* LoadDatabaseFails with the return left out: main goes on
LoadDatabaseFails_NoReturn ==
    /\ pc = "load"
    /\ Given(args.j)
    /\ stdout' = Append(stdout, "Error: Could not load JSON database.")
    /\ pc' = "parse_i"
    /\ UNCHANGED <<args, unreadable, exc, all_valid, all_errors, parse_vars,
                   listing, idx, parsed, queries, responses, file_vars>>

\* the file is missing, unreadable or not JSON: the bare except, then return
LoadDatabaseFails ==
    /\ pc = "load"
    /\ Given(args.j)
    /\ stdout' = Append(stdout, "Error: Could not load JSON database.")
    /\ pc' = "done"
    /\ UNCHANGED <<args, unreadable, exc, all_valid, all_errors, parse_vars,
                   listing, idx, parsed, queries, responses, file_vars>>

(***************************************************************************)
(* parse_csv_file                                                          *)
(***************************************************************************)
\* the call: open(path) raises, or the locals are initialised
CallParse(p, site) ==
    IF p \in unreadable
    THEN /\ Raise("OSError")
         /\ UNCHANGED parse_vars
    ELSE /\ path' = p
         /\ ret' = site
         /\ read' = <<>>
         /\ valid_flights' = <<>>
         /\ error_entries' = <<>>
         /\ pc' = "parsing"
         /\ exc' = exc

\* one iteration of the loop over the file's lines
ReadLine(Lines, max) ==
    /\ pc = "parsing"
    /\ Len(read) < max
    /\ \E raw_line \in Lines :
          LET out == ProcessLine(Len(read) + 1, raw_line)
          IN  /\ read' = Append(read, raw_line)
              /\ valid_flights' = valid_flights \o out.valid
              /\ error_entries' = error_entries \o out.errors
    /\ UNCHANGED <<args, unreadable, pc, exc, all_valid, all_errors, path, ret,
                   listing, idx, parsed, queries, responses, file_vars, stdout>>

\* the file is exhausted: return valid_flights, error_entries; the caller
\* extends all_valid and all_errors
EndOfFile ==
    /\ pc = "parsing"
    /\ all_valid' = all_valid \o valid_flights
    /\ all_errors' = all_errors \o error_entries
    /\ parsed' = Append(parsed, path)
    /\ pc' = IF ret = "i" THEN "parse_d" ELSE "dir_loop"
    /\ idx' = IF ret = "i" THEN idx ELSE idx + 1
    /\ UNCHANGED <<args, unreadable, exc, parse_vars, listing, queries,
                   responses, file_vars, stdout>>

(***************************************************************************)
(* main: a single CSV (-i), a folder (-d)                                  *)
(***************************************************************************)
SkipSingle ==
    /\ pc = "parse_i"
    /\ ~(Given(args.i) /\ ~Given(args.j))
    /\ pc' = "parse_d"
    /\ UNCHANGED <<args, unreadable, exc, all_valid, all_errors, parse_vars,
                   listing, idx, parsed, queries, responses, file_vars, stdout>>

ParseSingle ==
    /\ pc = "parse_i"
    /\ Given(args.i) /\ ~Given(args.j)
    /\ CallParse(args.i, "i")
    /\ UNCHANGED <<args, unreadable, all_valid, all_errors, listing, idx,
                   parsed, queries, responses, file_vars, stdout>>

SkipFolder ==
    /\ pc = "parse_d"
    /\ ~(Given(args.d) /\ ~Given(args.j))
    /\ pc' = "query"
    /\ UNCHANGED <<args, unreadable, exc, all_valid, all_errors, parse_vars,
                   listing, idx, parsed, queries, responses, file_vars, stdout>>

ListFolder(Listings) ==
    /\ pc = "parse_d"
    /\ Given(args.d) /\ ~Given(args.j)
    /\ \E l \in Listings : listing' = l
    /\ idx' = 1
    /\ pc' = "dir_loop"
    /\ UNCHANGED <<args, unreadable, exc, all_valid, all_errors, parse_vars,
                   parsed, queries, responses, file_vars, stdout>>

\* os.listdir raises: the folder is missing
ListFolderFails ==
    /\ pc = "parse_d"
    /\ Given(args.d) /\ ~Given(args.j)
    /\ Raise("OSError")
    /\ UNCHANGED <<args, unreadable, all_valid, all_errors, parse_vars,
                   listing, idx, parsed, queries, responses, file_vars, stdout>>

\* one iteration of the loop over the listing
NextFile ==
    /\ pc = "dir_loop"
    /\ idx <= Len(listing)
    /\ IF endswith(listing[idx], s_csv)
       THEN /\ CallParse(join(args.d, listing[idx]), "d")
            /\ idx' = idx
       ELSE /\ idx' = idx + 1
            /\ UNCHANGED <<pc, exc, parse_vars>>
    /\ UNCHANGED <<args, unreadable, all_valid, all_errors, listing,
                   parsed, queries, responses, file_vars, stdout>>

EndFolder ==
    /\ pc = "dir_loop"
    /\ idx > Len(listing)
    /\ pc' = "query"
    /\ UNCHANGED <<args, unreadable, exc, all_valid, all_errors, parse_vars,
                   listing, idx, parsed, queries, responses, file_vars, stdout>>

(***************************************************************************)
(* main: run queries (-q)                                                  *)
(***************************************************************************)
\* to_dt(x): raises ValueError when x does not parse
to_dt(x) == strptime(x)

\* PredicateFails with the two timestamp comparisons turned round
PredicateFails_BoundsSwapped(flight, key, value) ==
    IF key \in {"flight_id", "origin", "destination"}
    THEN flight[key] # value
    ELSE IF key = "price"
    THEN float_gt(flight.price, value)
    ELSE IF key = "departure_datetime"
    THEN dt_gt(to_dt(flight.departure_datetime), to_dt(value))
    ELSE IF key = "arrival_datetime"
    THEN dt_lt(to_dt(flight.arrival_datetime), to_dt(value))
    ELSE FALSE

\* the branch of the loop over q.items() sets ok = False
PredicateFails(flight, key, value) ==
    IF key \in {"flight_id", "origin", "destination"}
    THEN flight[key] # value
    ELSE IF key = "price"
    THEN float_gt(flight.price, value)
    ELSE IF key = "departure_datetime"
    THEN dt_lt(to_dt(flight.departure_datetime), to_dt(value))
    ELSE IF key = "arrival_datetime"
    THEN dt_gt(to_dt(flight.arrival_datetime), to_dt(value))
    ELSE FALSE

\* the branch raises: one of its two to_dt calls fails
PredicateRaises(flight, key, value) ==
    \/ /\ key = "departure_datetime"
       /\ (to_dt(flight.departure_datetime) = NoDatetime \/ to_dt(value) = NoDatetime)
    \/ /\ key = "arrival_datetime"
       /\ (to_dt(flight.arrival_datetime) = NoDatetime \/ to_dt(value) = NoDatetime)

\* ok after the loop over q.items(): no break, every item is looked at
FlightOk(flight, q) ==
    \A k \in 1..Len(q) : ~PredicateFails(flight, q[k].key, q[k].value)

\* the loop over all_valid for one predicate set raises
QueryRaises(q, flights) ==
    \E n \in 1..Len(flights) : \E k \in 1..Len(q) :
        PredicateRaises(flights[n], q[k].key, q[k].value)

\* Matches with matches.insert(0, flight) for matches.append(flight)
RECURSIVE Matches_NewestFirst(_, _)
Matches_NewestFirst(q, flights) ==
    IF flights = <<>> THEN <<>>
    ELSE Matches_NewestFirst(q, Tail(flights))
            \o (IF FlightOk(Head(flights), q) THEN <<Head(flights)>> ELSE <<>>)

\* matches after the loop over all_valid
Matches(q, flights) ==
    LET Ok(flight) == FlightOk(flight, q)
    IN  SelectSeq(flights, Ok)

SkipQuery ==
    /\ pc = "query"
    /\ ~Given(args.q)
    /\ pc' = "write"
    /\ UNCHANGED <<args, unreadable, exc, all_valid, all_errors, parse_vars,
                   listing, idx, parsed, queries, responses, file_vars, stdout>>

\* json.load(f), a single object wrapped into a list, responses = []
LoadQueries(QueryFiles) ==
    /\ pc = "query"
    /\ Given(args.q)
    /\ \E loaded \in QueryFiles :
          queries' = IF loaded.type = "dict" THEN <<loaded.object>> ELSE loaded.list
    /\ responses' = <<>>
    /\ pc' = "q_loop"
    /\ UNCHANGED <<args, unreadable, exc, all_valid, all_errors, parse_vars,
                   listing, idx, parsed, file_vars, stdout>>

\* open(args.q) or json.load raises
LoadQueriesFails ==
    /\ pc = "query"
    /\ Given(args.q)
    /\ Raise("OSError")
    /\ UNCHANGED <<args, unreadable, all_valid, all_errors, parse_vars,
                   listing, idx, parsed, queries, responses, file_vars, stdout>>

\* one iteration of the loop over queries
QueryStep ==
    /\ pc = "q_loop"
    /\ Len(responses) < Len(queries)
    /\ LET q == queries[Len(responses) + 1]
       IN  IF QueryRaises(q, all_valid)
           THEN /\ Raise("ValueError")
                /\ UNCHANGED responses
           ELSE /\ responses' = Append(responses,
                        [query |-> q, matches |-> Matches(q, all_valid)])
                /\ UNCHANGED <<pc, exc>>
    /\ UNCHANGED <<args, unreadable, all_valid, all_errors, parse_vars,
                   listing, idx, parsed, queries, file_vars, stdout>>

\* json.dump(responses, f) to the response file
SaveResponse ==
    /\ pc = "q_loop"
    /\ Len(responses) = Len(queries)
    /\ response_json' = File(s_response, responses)
    /\ stdout' = Append(stdout, "Query results saved to:")
    /\ pc' = "write"
    /\ UNCHANGED <<args, unreadable, exc, all_valid, all_errors, parse_vars,
                   listing, idx, parsed, queries, responses, errors_txt, db_json>>

(***************************************************************************)
(* main: write errors.txt and the database (only if CSV was parsed)        *)
(***************************************************************************)
WriteOutputs ==
    /\ pc = "write"
    /\ ~Given(args.j)
    /\ errors_txt' = File(s_errors_txt, all_errors)
    /\ db_json' = File(IF Given(args.o) THEN args.o ELSE s_db_json, all_valid)
    /\ stdout' = stdout \o <<"Parsing completed.", "Valid flights saved to:",
                             "Errors saved to: errors.txt">>
    /\ pc' = "done"
    /\ UNCHANGED <<args, unreadable, exc, all_valid, all_errors, parse_vars,
                   listing, idx, parsed, queries, responses, response_json>>

NoWrite ==
    /\ pc = "write"
    /\ Given(args.j)
    /\ pc' = "done"
    /\ UNCHANGED <<args, unreadable, exc, all_valid, all_errors, parse_vars,
                   listing, idx, parsed, queries, responses, file_vars, stdout>>

(***************************************************************************)
(* Specifications                                                          *)
(***************************************************************************)
MaxLines == 2
MaxMainLines == 1
MaxRecords == 2
MaxQueries == 2

\* the record the validator builds from an accepted line
Flight(raw_line) == ProcessLine(1, raw_line).valid[1]

Listings == {<<>>, <<f_b>>, <<f_b, f_c>>, <<f_notes, f_c, f_b>>}
MainDatabases == {<<>>, <<Flight(L_ok)>>, <<Flight(L_ok2), Flight(L_ok)>>}
MainQueryFiles ==
    {JsonDict(Q_origin), JsonList(<<Q_all>>), JsonList(<<Q_bad_dt, Q_all>>)}

QuerySets ==
    {Q_all, Q_flight, Q_origin, Q_price200, Q_price100, Q_origin_price,
     Q_unknown, Q_departure, Q_arrival, Q_departure_time, Q_arrival_time,
     Q_bad_dt}
QueryFiles ==
    {JsonDict(q) : q \in QuerySets}
        \cup {JsonList(b) : b \in Batches(QuerySets, MaxQueries)}

\* every run of main: any options, at most one unreadable CSV file
Init ==
    \E a \in AllArgs : \E u \in {{}} \cup {{p} : p \in CsvPaths} : Start(a, u)

Next ==
    \/ NoLoad
    \/ LoadDatabase(MainDatabases)
    \/ LoadDatabaseFails
    \/ SkipSingle
    \/ ParseSingle
    \/ ReadLine(MainLines, MaxMainLines)
    \/ EndOfFile
    \/ SkipFolder
    \/ ListFolder(Listings)
    \/ ListFolderFails
    \/ NextFile
    \/ EndFolder
    \/ SkipQuery
    \/ LoadQueries(MainQueryFiles)
    \/ LoadQueriesFails
    \/ QueryStep
    \/ SaveResponse
    \/ WriteOutputs
    \/ NoWrite

Spec == Init /\ [][Next]_vars

\* the validator: main -i a.csv on every file of SampleLines, up to the
\* return of parse_csv_file
InitParse ==
    Start([i |-> p_a, d |-> NoArg, o |-> NoArg, j |-> NoArg, q |-> NoArg], {})

NextParse ==
    \/ NoLoad
    \/ ParseSingle
    \/ ReadLine(SampleLines, MaxLines)
    \/ EndOfFile

SpecParse == InitParse /\ [][NextParse]_vars

\* the query loop: main -i a.csv -q q.json, the database built from QueryLines
InitQuery ==
    Start([i |-> p_a, d |-> NoArg, o |-> NoArg, j |-> NoArg, q |-> p_q], {})

NextQuery ==
    \/ NoLoad
    \/ ParseSingle
    \/ ReadLine(QueryLines, MaxRecords)
    \/ EndOfFile
    \/ SkipFolder
    \/ LoadQueries(QueryFiles)
    \/ LoadQueriesFails
    \/ QueryStep
    \/ SaveResponse
    \/ WriteOutputs

SpecQuery == InitQuery /\ [][NextQuery]_vars

(***************************************************************************)
(* What the specification says of the validator                            *)
(***************************************************************************)
\* raw lines that are no data: blank, a comment, the header
IsBlankLine(raw_line) == strip(raw_line) = <<>>
IsCommentLine(raw_line) == ~IsBlankLine(raw_line) /\ Head(strip(raw_line)) = "#"
IsHeaderLine(raw_line) == startswith(strip(raw_line), s_flight_id)
IsDataLine(raw_line) ==
    ~IsBlankLine(raw_line) /\ ~IsCommentLine(raw_line) /\ ~IsHeaderLine(raw_line)

\* an entry of the rejection log that is a comment notice, not a rejection
IsNotice(entry) == entry.reasons = <<CommentNotice>>
Rejections(entries) ==
    LET IsRejection(entry) == ~IsNotice(entry)
    IN  SelectSeq(entries, IsRejection)

\* the five invariants of a FlightRecord
FlightIdRule(flight_id) ==
    /\ Len(flight_id) \in 2..8
    /\ \A n \in 1..Len(flight_id) : flight_id[n] \in Upper \cup Lower \cup Digit

AirportRule(code) ==
    /\ Len(code) = 3
    /\ \A n \in 1..Len(code) : code[n] \in Upper
    /\ code # s_XXX

TimestampRule(text) == strptime(text) # NoDatetime

OrderRule(departure, arrival) == LexLess(strptime(departure), strptime(arrival))

PriceRule(price) == price.cls = "fin" /\ price.num > 0

RecordInvariants(flight) ==
    /\ FlightIdRule(flight.flight_id)
    /\ AirportRule(flight.origin)
    /\ AirportRule(flight.destination)
    /\ TimestampRule(flight.departure_datetime)
    /\ TimestampRule(flight.arrival_datetime)
    /\ OrderRule(flight.departure_datetime, flight.arrival_datetime)
    /\ PriceRule(flight.price)

\* C1: every record of the accepted list satisfies the five FlightRecord
\* invariants: flight_id of 2..8 alphanumeric characters; origin and
\* destination of exactly 3 uppercase letters and not "XXX"; both timestamps
\* parse; arrival strictly later than departure; price finite and above zero.
C1_AcceptedSatisfyInvariants ==
    \A n \in 1..Len(valid_flights) : RecordInvariants(valid_flights[n])

\* C2: every line read that is not blank, not a comment and not a header
\* yields exactly one of an accepted record or a rejection entry, so at every
\* point of the file accepted + rejected = lines - blank - comment - header
\* (comment notices are not rejections), each rejection carrying the number
\* of its data line, no number twice.
C2_Partition ==
    LET data == {n \in 1..Len(read) : IsDataLine(read[n])}
        rejected == Rejections(error_entries)
    IN  /\ Len(valid_flights) + Len(rejected) = Cardinality(data)
        /\ \A k \in 1..Len(rejected) : rejected[k].line_number \in data
        /\ \A k, m \in 1..Len(rejected) :
              rejected[k].line_number = rejected[m].line_number => k = m

\* C2 witness: a file of an accepted line and a comment has been read: one
\* record, one notice, no rejection.
C2_Witness ==
    /\ pc = "parse_d"
    /\ Len(read) = 2
    /\ Len(valid_flights) = 1
    /\ Len(error_entries) = 1
    /\ IsNotice(error_entries[1])

\* the reasons the validation rules give for six fields, in check order;
\* the two price reasons exclude each other, the ordering reason needs both
\* timestamps
RuleReasons(parts) ==
    (IF FlightIdRule(parts[1]) THEN <<>> ELSE <<"invalid flight_id">>)
    \o (IF AirportRule(parts[2]) THEN <<>> ELSE <<"invalid origin code">>)
    \o (IF AirportRule(parts[3]) THEN <<>> ELSE <<"invalid destination code">>)
    \o (IF TimestampRule(parts[4]) THEN <<>> ELSE <<"invalid departure datetime">>)
    \o (IF TimestampRule(parts[5]) THEN <<>> ELSE <<"invalid arrival datetime">>)
    \o (IF TimestampRule(parts[4]) /\ TimestampRule(parts[5])
           /\ ~OrderRule(parts[4], parts[5])
        THEN <<"arrival before departure">> ELSE <<>>)
    \o (IF float(parts[6]) = NoFloat THEN <<"invalid price">>
        ELSE IF float_le(float(parts[6]), Zero) THEN <<"negative price value">>
        ELSE <<>>)

\* C3: a line of exactly six fields that violates validation rules has a
\* rejection entry whose reason list holds one reason for every rule
\* violated, in check order.
C3_AllReasonsInOrder ==
    \A n \in 1..Len(read) :
        LET parts == split(strip(read[n]), ",")
        IN  (IsDataLine(read[n]) /\ Len(parts) = 6 /\ RuleReasons(parts) # <<>>)
            => \E k \in 1..Len(error_entries) :
                  /\ error_entries[k].line_number = n
                  /\ error_entries[k].reasons = RuleReasons(parts)

(***************************************************************************)
(* What the specification says of the query engine                         *)
(***************************************************************************)
Keys(q) == {q[k].key : k \in 1..Len(q)}

RunEnded == pc \in {"done", "crashed"}

\* sub is a subsequence of s: its elements are elements of s at strictly
\* increasing positions
IsSubsequence(sub, s) ==
    \E f \in [1..Len(sub) -> 1..Len(s)] :
        /\ \A a, b \in 1..Len(sub) : a < b => f[a] < f[b]
        /\ \A a \in 1..Len(sub) : s[f[a]] = sub[a]

\* the record satisfies every predicate of the set: equality for flight_id,
\* origin and destination, record price <= value for price, any other key
\* ignored
SatisfiesAll(flight, q) ==
    \A k \in 1..Len(q) :
        /\ q[k].key \in {"flight_id", "origin", "destination"}
              => flight[q[k].key] = q[k].value
        /\ q[k].key = "price" => float_le(flight.price, q[k].value)

\* C4: a record is in a predicate set's matches if and only if it satisfies
\* every predicate of the set (flight_id, origin, destination by equality,
\* price by record price <= value, unrecognized keys ignored, the empty set
\* matching every record); stated for the predicate sets without a
\* timestamp key.
C4_MatchesIffAllPredicates ==
    \A n \in 1..Len(responses) :
        LET q == responses[n].query
            Satisfies(flight) == SatisfiesAll(flight, q)
        IN  Keys(q) \cap {"departure_datetime", "arrival_datetime",
                          "departure_time", "arrival_time"} = {}
            => responses[n].matches = SelectSeq(all_valid, Satisfies)

\* C5 as claimed: with key departure_time every match departs at or after
\* the query timestamp, with key arrival_time every match arrives at or
\* before it.
C5_TimeKeysBound ==
    \A n \in 1..Len(responses) : \A k \in 1..Len(responses[n].query) :
        LET item == responses[n].query[k]
        IN  \A m \in 1..Len(responses[n].matches) :
                LET flight == responses[n].matches[m]
                IN  /\ item.key = "departure_time" =>
                        ~LexLess(strptime(flight.departure_datetime),
                                 strptime(item.value))
                    /\ item.key = "arrival_time" =>
                        ~LexLess(strptime(item.value),
                                 strptime(flight.arrival_datetime))

\* C5 amended: with key departure_datetime every match departs at or after
\* the query timestamp, with key arrival_datetime every match arrives at or
\* before it; a record departing before the departure bound is not among
\* the matches.
C5_DatetimeKeysBound ==
    \A n \in 1..Len(responses) : \A k \in 1..Len(responses[n].query) :
        LET item == responses[n].query[k]
        IN  \A m \in 1..Len(responses[n].matches) :
                LET flight == responses[n].matches[m]
                IN  /\ item.key = "departure_datetime" =>
                        ~LexLess(strptime(flight.departure_datetime),
                                 strptime(item.value))
                    /\ item.key = "arrival_datetime" =>
                        ~LexLess(strptime(item.value),
                                 strptime(flight.arrival_datetime))

\* C5 witness: the departure bound has excluded one record of two, and the
\* arrival bound another.
C5_Witness ==
    /\ Len(responses) = 2
    /\ Len(all_valid) = 2
    /\ responses[1].query = Q_departure
    /\ Len(responses[1].matches) = 1
    /\ responses[2].query = Q_arrival
    /\ Len(responses[2].matches) = 1

\* What the query loop keeps at every step: the entries so far pair the
\* predicate sets with their matches in input order; the matches are a
\* subsequence of the database in the database's order; the database is the
\* one that was built, and the same predicate set gives the same matches
\* again; a response that is written holds one entry per predicate set.
OrderedStableResponse ==
    /\ Len(responses) <= Len(queries)
    /\ \A n \in 1..Len(responses) :
          /\ responses[n].query = queries[n]
          /\ IsSubsequence(responses[n].matches, all_valid)
    /\ \A n, m \in 1..Len(responses) :
          responses[n].query = responses[m].query
              => responses[n].matches = responses[m].matches
    /\ pc \in {"q_loop", "write", "done", "crashed"} => all_valid = valid_flights
    /\ response_json.written =>
          /\ response_json.content = responses
          /\ Len(responses) = Len(queries)

\* C6: for any database and any query batch the response holds exactly one
\* entry per predicate set, in input order, each pairing the predicate set
\* with its matches, a subsequence of the unchanged database in its order;
\* the same predicate set gives the same matches again.
C6_ResponseForEveryBatch ==
    /\ OrderedStableResponse
    /\ (RunEnded /\ exc # "OSError") =>
          /\ response_json.written
          /\ Len(response_json.content) = Len(queries)

\* a predicate set with a timestamp value that does not parse
Malformed(q) ==
    \E k \in 1..Len(q) :
        /\ q[k].key \in {"departure_datetime", "arrival_datetime"}
        /\ strptime(q[k].value) = NoDatetime

\* C7: a predicate timestamp that does not parse is handled: it does not
\* crash the run, and when the run has ended the response holds the results
\* of the other predicate sets of the batch.
C7_MalformedTimestampHandled ==
    /\ pc = "crashed" => exc # "ValueError"
    /\ pc \in {"done", "crashed"} =>
          \A n \in 1..Len(queries) :
              ~Malformed(queries[n]) =>
                  \E k \in 1..Len(response_json.content) :
                      response_json.content[k].query = queries[n]

(***************************************************************************)
(* What the specification says of a run                                    *)
(***************************************************************************)
\* C8: a run that builds the database from source ends with every accepted
\* record in the persisted database and every rejected line in the rejection
\* log, also when it executes a query batch.
C8_EveryClassificationWritten ==
    (RunEnded /\ ~Given(args.j)) =>
        /\ \A n \in 1..Len(all_valid) :
              db_json.written /\ all_valid[n] \in Range(db_json.content)
        /\ \A n \in 1..Len(all_errors) :
              errors_txt.written /\ all_errors[n] \in Range(errors_txt.content)

LoadFailed == "Error: Could not load JSON database." \in Range(stdout)

\* C9: when loading the database fails the run reports it and does nothing
\* else: no source is parsed, no query is executed, no file is written; and
\* whenever a database is requested with -j, no source is parsed, even with
\* -i or -d given.
C9_LoadFailureEndsRun ==
    /\ LoadFailed =>
          /\ pc = "done" /\ exc = ""
          /\ stdout = <<"Error: Could not load JSON database.">>
          /\ all_valid = <<>> /\ all_errors = <<>>
          /\ queries = <<>> /\ responses = <<>>
          /\ ~errors_txt.written /\ ~db_json.written /\ ~response_json.written
    /\ Given(args.j) =>
          /\ pc \notin {"parsing", "dir_loop"}
          /\ path = <<>> /\ read = <<>> /\ parsed = <<>> /\ listing = <<>>
          /\ all_errors = <<>>
          /\ ~errors_txt.written /\ ~db_json.written

\* C9 witness: the load failed in a run that was also given -i, -d and -q.
C9_Witness ==
    /\ LoadFailed
    /\ pc = "done"
    /\ Given(args.i) /\ Given(args.d) /\ Given(args.q)

\* C10: when the folder is scanned, an unreadable file does not keep the
\* other .csv files of the folder from being parsed.
C10_OtherFilesStillParsed ==
    (RunEnded /\ Given(args.d) /\ ~Given(args.j) /\ idx >= 1) =>
        \A k \in 1..Len(listing) :
            (endswith(listing[k], s_csv) /\ join(args.d, listing[k]) \notin unreadable)
                => join(args.d, listing[k]) \in Range(parsed)

====
